---- MODULE Spec2Model ----
(***************************************************************************)
(* A model of nestgo: the dependency container and its field injector,     *)
(* the module registry, the startup sequences, the route binder and the    *)
(* request dispatcher.  Every definition is translated from the Go source  *)
(* named for it in MODEL_MAP.json.                                         *)
(***************************************************************************)
EXTENDS Integers, Sequences, FiniteSets, TLC

(***************************************************************************)
(* Bounds of the model.                                                    *)
(***************************************************************************)
\* the largest number of fields of a struct handed to Container.Inject
MaxFields == 2

\* the Start calls made on one Application
MaxStarts == 2

(***************************************************************************)
(* Values.  A service instance is what a map[string]interface{} entry      *)
(* holds: a pointer to a struct (kind "ptr", the object id is its address) *)
(* or a struct value (kind "val").  type is the unqualified type name,     *)
(* reflect.Type.Name() of the struct.                                      *)
(***************************************************************************)
Keys == {"FakeDatabase", "UserService"}

TypeNames == {"FakeDatabase", "UserService"}

\* a Go map[string]T with no entry
EmptyMap == [k \in {} |-> 0]

\* the zero sync.RWMutex
NoLock == [writer |-> "none", readers |-> {}]

\* the zero sync.Once and the nil globalRegistry
FreshOnce == [state |-> "fresh", globalRegistry |-> "nil", made |-> 0]

\* m[k] = v of a Go map
MapStore(m, k, v) == [x \in DOMAIN m \cup {k} |-> IF x = k THEN v ELSE m[x]]

NoService == [kind |-> "none", type |-> "none", id |-> "none"]

\* no Start call, no signal and no cancel call yet
NoLife == [starts |-> 0, signal |-> "none", cancelled |-> FALSE]

\* no Register or AutoRegister call yet
NoReg == [op |-> "none", name |-> "", inst |-> NoService, before |-> EmptyMap]

Nil == [kind |-> "nil", type |-> "nil", id |-> "nil"]

Ptr(t, o) == [kind |-> "ptr", type |-> t, id |-> o]

Val(t, o) == [kind |-> "val", type |-> t, id |-> o]

\* the two *FakeDatabase instances, the *UserService, and a FakeDatabase value
Instances ==
    { Ptr("FakeDatabase", "db1"), Ptr("FakeDatabase", "db2"),
      Ptr("UserService", "us1"), Val("FakeDatabase", "dbv") }

DbObjs == {"db1", "db2"}

UserIds == {"u1"}

VARIABLES
    services,   \* Container.services: a map from key to instance
    call,       \* the last Container.Inject call: its target, the map it read, its outcome
    users,      \* FakeDatabase.users of each *FakeDatabase object
    modules,    \* ModuleRegistry.modules of the global registry: name -> descriptor
    regCalls,   \* the last two registration calls on the registry, latest first
    objs,       \* the fields of every service and controller object
    pc,         \* where the startup sequence stands
    entry,      \* the startup entry point that was called
    injectLog,  \* the Inject calls InjectDependencies made, in order
    injectErr,  \* what InjectDependencies returned
    transport,  \* the routes registered with the mux router, in order
    listening,  \* whether Server.Start has called ListenAndServe
    ctx,        \* BaseController.ResponseWriter and .Request of each controller
    reqs,       \* the requests being served: route, mux vars, tracker, position
    sink,       \* what was written to each request's http.ResponseWriter, in order
    gor,        \* the goroutines that call the registries: operation and position
    mutex,      \* ModuleRegistry.mutex: the writer and the readers holding it
    initOnce,   \* initOnce and globalRegistry: the state of the Once, the registries made
    routes,     \* Router.routes: the routes recorded from http tags
    lastReg,    \* the last Register or AutoRegister call and the map it met
    tree,       \* Application.tree: the children of the root node
    life        \* the Start calls made, the shutdown signal and the cancel call

containerVars == <<services, call, users, lastReg>>

registryVars == <<modules, regCalls>>

startupVars == <<objs, pc, entry, injectLog, injectErr, transport, listening>>

serveVars == <<ctx, reqs, sink>>

concVars == <<gor, mutex, initOnce>>

routerVars == <<routes>>

treeVars == <<tree>>

lifeVars == <<life>>

vars == <<services, call, users, modules, regCalls, objs, pc, entry, injectLog,
          injectErr, transport, listening, ctx, reqs, sink, gor, mutex, initOnce,
          routes, lastReg, tree, life>>

(***************************************************************************)
(* Container                                                               *)
(***************************************************************************)
\* Container.Register
Register(svc, name, inst) == MapStore(svc, name, inst)

\* a bug: the name of the type as it is, which is empty for a pointer type
ServiceNameOfPointer(inst) == IF inst.kind = "ptr" THEN "" ELSE inst.type

\* the key AutoRegister derives: the type name, of the pointee for a pointer
ServiceName(inst) == inst.type

\* Container.AutoRegister
AutoRegister(svc, inst) == MapStore(svc, ServiceName(inst), inst)

\* Container.Get: the entry and whether it exists
Get(svc, name) ==
    IF name \in DOMAIN svc
    THEN [service |-> svc[name], exists |-> TRUE]
    ELSE [service |-> NoService, exists |-> FALSE]

\* reflect.Value.CanSet of a field reached through the target pointer
CanSet(f) == f.exported

\* whether reflect.Value.Set accepts the instance for the field: every
\* injected field of the model has type *elem
AssignableTo(inst, f) == inst.kind = "ptr" /\ inst.type = f.elem

\* a bug: the assignment is left out
FieldSetSkipped(f, inst) == f

\* field.Set(reflect.ValueOf(service))
FieldSet(f, inst) == [f EXCEPT !.val = inst]

\* the two failure entries Inject appends
NotFoundEntry(f) == [what |-> "not found", name |-> f.inject]

CannotSetEntry(f) == [what |-> "cannot set", name |-> f.name]

\* the field loop of Inject from field i on; panicked when field.Set panics
RECURSIVE InjectScan(_, _, _, _)
InjectScan(svc, fs, i, missing) ==
    IF i > Len(fs)
    THEN [fields |-> fs, missing |-> missing, panicked |-> FALSE]
    ELSE LET f == fs[i]
             got == Get(svc, f.inject)
         IN  IF f.inject = ""
             THEN InjectScan(svc, fs, i + 1, missing)
             ELSE IF got.exists
             THEN IF CanSet(f)
                  THEN IF AssignableTo(got.service, f)
                       THEN InjectScan(svc, [fs EXCEPT ![i] = FieldSet(f, got.service)],
                                       i + 1, missing)
                       ELSE [fields |-> fs, missing |-> missing, panicked |-> TRUE]
                  ELSE InjectScan(svc, fs, i + 1, Append(missing, CannotSetEntry(f)))
             ELSE InjectScan(svc, fs, i + 1, Append(missing, NotFoundEntry(f)))

\* a bug: a call that fails gives the target its fields back as they were
InjectRolledBack(svc, tgt) ==
    IF ~tgt.isPtr
    THEN [result |-> "nil", fields |-> tgt.fields, missing |-> <<>>]
    ELSE LET r == InjectScan(svc, tgt.fields, 1, <<>>)
         IN  [result  |-> IF r.panicked THEN "panic"
                          ELSE IF Len(r.missing) > 0 THEN "error" ELSE "nil",
              fields  |-> IF Len(r.missing) > 0 THEN tgt.fields ELSE r.fields,
              missing |-> r.missing]

\* Container.Inject: result "nil" (no error), "error" (missing lists the
\* entries of the message) or "panic" (the call never returns)
Inject(svc, tgt) ==
    IF ~tgt.isPtr
    THEN [result |-> "nil", fields |-> tgt.fields, missing |-> <<>>]
    ELSE LET r == InjectScan(svc, tgt.fields, 1, <<>>)
         IN  [result  |-> IF r.panicked THEN "panic"
                          ELSE IF Len(r.missing) > 0 THEN "error" ELSE "nil",
              fields  |-> r.fields,
              missing |-> r.missing]

(***************************************************************************)
(* Targets of the container specification: every struct of up to MaxFields *)
(* fields, each a pointer field with or without an inject tag, exported or *)
(* not, freshly constructed (nil fields).                                  *)
(***************************************************************************)
FieldNames == <<"F1", "F2", "F3", "F4">>

FieldShapes == [inject : Keys \cup {""}, exported : BOOLEAN, elem : TypeNames]

\* a struct field: its name, its inject / route / http / baseUrl tags,
\* whether it is exported, whether its type is a func, the struct its pointer
\* type points to, and its value
BlankField ==
    [name |-> "", inject |-> "", route |-> <<>>, http |-> "", baseUrl |-> <<>>,
     isFunc |-> FALSE, exported |-> TRUE, elem |-> "", val |-> Nil]

\* a pointer field with an inject tag
InjectField(name, tag, exported, elem) ==
    [BlankField EXCEPT !.name = name, !.inject = tag, !.exported = exported, !.elem = elem]

MkField(i, s) == InjectField(FieldNames[i], s.inject, s.exported, s.elem)

Layouts == UNION { [1..n -> FieldShapes] : n \in 0..MaxFields }

MkTarget(isPtr, lay) ==
    [isPtr |-> isPtr, fields |-> [i \in 1..Len(lay) |-> MkField(i, lay[i])]]

NoCall ==
    [made |-> FALSE, svc |-> EmptyMap,
     target |-> MkTarget(TRUE, <<>>), result |-> "nil", missing |-> <<>>]

InitContainer ==
    /\ services = EmptyMap
    /\ call = NoCall
    /\ users = [d \in DbObjs |-> UserIds]
    /\ modules = EmptyMap
    /\ regCalls = <<>>
    /\ objs = EmptyMap
    /\ pc = "boot"
    /\ entry = "none"
    /\ injectLog = <<>>
    /\ injectErr = "none"
    /\ transport = <<>>
    /\ listening = FALSE
    /\ ctx = EmptyMap
    /\ reqs = EmptyMap
    /\ sink = EmptyMap
    /\ gor = EmptyMap
    /\ mutex = NoLock
    /\ initOnce = FreshOnce
    /\ routes = <<>>
    /\ lastReg = NoReg
    /\ tree = <<>>
    /\ life = NoLife

\* a caller registers an instance under a name (registration comes before
\* injection, as in every startup sequence)
DoRegister ==
    /\ ~call.made
    /\ \E name \in Keys, inst \in Instances :
          /\ services' = Register(services, name, inst)
          /\ lastReg' = [op |-> "Register", name |-> name, inst |-> inst,
                         before |-> services]
    /\ UNCHANGED <<lifeVars, treeVars, routerVars, concVars, serveVars, call, users, registryVars, startupVars>>

\* a caller auto-registers an instance
DoAutoRegister ==
    /\ ~call.made
    /\ \E inst \in Instances :
          /\ services' = AutoRegister(services, inst)
          /\ lastReg' = [op |-> "AutoRegister", name |-> "", inst |-> inst,
                         before |-> services]
    /\ UNCHANGED <<lifeVars, treeVars, routerVars, concVars, serveVars, call, users, registryVars, startupVars>>

\* a caller injects into a freshly constructed target
DoInject ==
    /\ ~call.made
    /\ \E isPtr \in BOOLEAN, lay \in Layouts :
          LET tgt == MkTarget(isPtr, lay)
              r   == Inject(services, tgt)
          IN  call' = [made |-> TRUE, svc |-> services,
                       target |-> [tgt EXCEPT !.fields = r.fields],
                       result |-> r.result, missing |-> r.missing]
    /\ UNCHANGED <<lifeVars, treeVars, routerVars, concVars, serveVars, services, users, lastReg, registryVars,
                   startupVars>>

\* FakeDatabase.DeleteUser on the object a pointer refers to
DeleteUser(us, inst, id) ==
    IF inst.kind = "ptr" /\ inst.id \in DbObjs
    THEN [us EXCEPT ![inst.id] = @ \ {id}]
    ELSE us

\* UserService.DeleteUser: through the injected field of the last target
DoDeleteViaField ==
    /\ call.made /\ call.result = "nil"
    /\ \E i \in 1..Len(call.target.fields), id \in UserIds :
          /\ call.target.fields[i].val # Nil
          /\ call.target.fields[i].val.id \in DbObjs
          /\ id \in users[call.target.fields[i].val.id]
          /\ users' = DeleteUser(users, call.target.fields[i].val, id)
    /\ UNCHANGED <<lifeVars, treeVars, routerVars, concVars, serveVars, services, call, lastReg, registryVars, startupVars>>

NextContainer ==
    \/ DoRegister
    \/ DoAutoRegister
    \/ DoInject
    \/ DoDeleteViaField

SpecContainer == InitContainer /\ [][NextContainer]_vars

(***************************************************************************)
(* Claims about Container.Inject, checked under SpecContainer.             *)
(***************************************************************************)
Range(q) == { q[i] : i \in 1..Len(q) }

\* the inject-tagged fields of the last call's target
Tagged == { i \in 1..Len(call.target.fields) : call.target.fields[i].inject # "" }

\* the tagged fields whose service the container did not hold at the call
Missing == { i \in Tagged : ~Get(call.svc, call.target.fields[i].inject).exists }

\* FakeDatabase.GetAllUsers through a reference
GetAllUsers(inst) == IF inst.id \in DbObjs THEN users[inst.id] ELSE {}

\* after the call every tagged field holds the container's own instance, and
\* what is read through the field is what is read through the container entry
Wired ==
    \A i \in Tagged :
        LET f == call.target.fields[i]
        IN  /\ f.val # Nil
            /\ f.val = Get(call.svc, f.inject).service
            /\ GetAllUsers(f.val) = GetAllUsers(Get(call.svc, f.inject).service)

\* C1 as stated: whenever every inject-tagged field of a pointer-to-struct
\* target names a registered service, Inject returns no error and every such
\* field refers to the registered instance.
C1_AsStated ==
    (call.made /\ call.target.isPtr /\ Missing = {})
        => (call.result = "nil" /\ Wired)

\* C1 (amended): whenever every inject-tagged field of a pointer-to-struct
\* target is exported and names a registered service whose instance is a
\* pointer of the field's type, Inject returns no error and every such field
\* refers to the very instance the container holds under that name, so that a
\* deletion made through the field is seen through the container entry.
C1_InjectSuccess ==
    (/\ call.made /\ call.target.isPtr /\ Missing = {}
     /\ \A i \in Tagged :
            /\ CanSet(call.target.fields[i])
            /\ AssignableTo(Get(call.svc, call.target.fields[i].inject).service,
                            call.target.fields[i]))
        => (call.result = "nil" /\ Wired)

\* the FakeDatabase scenario: the service was injected with the registered
\* database and a user deleted through the service's field is gone from the
\* database the container holds
C1_Witness ==
    /\ call.made /\ call.target.isPtr /\ call.result = "nil"
    /\ \E i \in Tagged :
          /\ call.target.fields[i].inject = "FakeDatabase"
          /\ Get(call.svc, "FakeDatabase").service = Ptr("FakeDatabase", "db1")
          /\ call.target.fields[i].val = Ptr("FakeDatabase", "db1")
          /\ GetAllUsers(Get(services, "FakeDatabase").service) = {}

\* C2: whenever one or more inject-tagged fields of the target name services
\* that are not registered, Inject returns an error and the error names every
\* one of the missing services.
C2_InjectFailureNamesAll ==
    (call.made /\ call.target.isPtr /\ Missing # {})
        => /\ call.result = "error"
           /\ \A i \in Missing : NotFoundEntry(call.target.fields[i]) \in Range(call.missing)

\* the tagged fields whose service is registered
Found == Tagged \ Missing

\* the registered fields that Inject can assign: exported, and of the type
\* of the registered instance
Assignable ==
    { i \in Found : /\ CanSet(call.target.fields[i])
                    /\ AssignableTo(Get(call.svc, call.target.fields[i].inject).service,
                                    call.target.fields[i]) }

\* C27: when an inject-tagged field names a registered service and cannot be
\* assigned, Inject returns (it never ends abnormally in the middle of the
\* scan), the failures it returns name that field, and every field after it
\* has been scanned: the missing services after it are named as well.
C27_UnassignableReported ==
    (call.made /\ call.target.isPtr /\ Found \ Assignable # {})
        => /\ call.result = "error"
           /\ \A i \in Found \ Assignable :
                 CannotSetEntry(call.target.fields[i]) \in Range(call.missing)
           /\ \A i \in Missing :
                 NotFoundEntry(call.target.fields[i]) \in Range(call.missing)

\* C28: when Inject returns an error, every inject-tagged field whose
\* service is registered and assignable holds the registered instance, and
\* the failing fields hold what they held before the call (nil).
C28_NoRollback ==
    (call.made /\ call.target.isPtr /\ call.result = "error")
        => \A i \in Tagged :
              LET f == call.target.fields[i]
              IN  IF i \in Assignable
                  THEN f.val = Get(call.svc, f.inject).service
                  ELSE f.val = Nil

\* Inject returned an error for a target with a failing field declared
\* before a field it assigned
C28_Witness ==
    /\ call.made /\ call.target.isPtr /\ call.result = "error"
    /\ \E i \in Tagged \ Assignable, j \in Assignable :
          i < j /\ call.target.fields[j].val # Nil

\* the unqualified name of the type of an instance, the same for a value
\* and for a pointer to it
TypeName(inst) == inst.type

\* C18: after Register(name, x), Get(name) returns x whatever was stored
\* before and the entry of every other name is as it was; after
\* AutoRegister(x) the container is as after Register(n, x) with n the
\* unqualified type name of x, so an instance replaces the one of the same
\* type name registered before it.
C18_LastRegistrationWins ==
    /\ lastReg.op = "Register" =>
          /\ Get(services, lastReg.name) = [service |-> lastReg.inst, exists |-> TRUE]
          /\ \A k \in (DOMAIN services \cup DOMAIN lastReg.before) \ {lastReg.name} :
                Get(services, k) = Get(lastReg.before, k)
    /\ lastReg.op = "AutoRegister" =>
          /\ Get(services, TypeName(lastReg.inst))
                = [service |-> lastReg.inst, exists |-> TRUE]
          /\ \A k \in (DOMAIN services \cup DOMAIN lastReg.before)
                         \ {TypeName(lastReg.inst)} :
                Get(services, k) = Get(lastReg.before, k)

\* a value is auto-registered over a pointer of the same type name, next to
\* an entry of another name
C18_Witness ==
    /\ lastReg.op = "AutoRegister"
    /\ lastReg.inst = Val("FakeDatabase", "dbv")
    /\ DOMAIN lastReg.before = {"FakeDatabase", "UserService"}
    /\ lastReg.before["FakeDatabase"] = Ptr("FakeDatabase", "db1")
    /\ services["FakeDatabase"] = Val("FakeDatabase", "dbv")

(***************************************************************************)
(* Strings.  A path is the sequence of its characters, so that the string  *)
(* functions the binder calls do what the library does.                    *)
(***************************************************************************)
\* strings.TrimSuffix(s, "/")
TrimSuffixSlash(s) ==
    IF Len(s) > 0 /\ s[Len(s)] = "/" THEN SubSeq(s, 1, Len(s) - 1) ELSE s

\* strings.Contains(s, ":")
ContainsColon(s) == \E i \in 1..Len(s) : s[i] = ":"

\* strings.ToUpper on the method names of the model
ToUpper(m) ==
    CASE m = "get" -> "GET"
      [] m = "post" -> "POST"
      [] OTHER -> m

\* strings.ReplaceAll(path, ":id", "{id}")
RECURSIVE ReplaceAllId(_)
ReplaceAllId(s) ==
    IF Len(s) = 0 THEN <<>>
    ELSE IF Len(s) >= 3 /\ SubSeq(s, 1, 3) = <<":", "i", "d">>
    THEN <<"{", "i", "d", "}">> \o ReplaceAllId(SubSeq(s, 4, Len(s)))
    ELSE <<s[1]>> \o ReplaceAllId(Tail(s))

(***************************************************************************)
(* Server: the routes of the mux router, in registration order.  A route  *)
(* is bound to the field of the controller whose func it calls; reg        *)
(* numbers the RegisterController call that bound it (0: none).            *)
(***************************************************************************)
\* the route NewServer registers on the router it creates
TestRoute ==
    [method |-> "GET", path |-> <<"/", "t", "e", "s", "t", "/", "{", "i", "d", "}">>,
     ctrl |-> "none", field |-> "none", reg |-> 0]

\* NewServer
NewServer == <<TestRoute>>

\* a bug: the new route is put in front of the routes registered so far
RegisterRouteInFront(tr, method, path, ctrl, field, reg) ==
    <<[method |-> method, path |-> ReplaceAllId(path),
       ctrl |-> ctrl, field |-> field, reg |-> reg]>> \o tr

\* Server.RegisterRoute
RegisterRoute(tr, method, path, ctrl, field, reg) ==
    Append(tr, [method |-> method, path |-> ReplaceAllId(path),
                ctrl |-> ctrl, field |-> field, reg |-> reg])

\* the sub-paths one pass of RegisterController registers
InPass(subPath, parameterized) == ContainsColon(subPath) = parameterized

\* a bug: one pass over the fields that registers every route as it comes
RECURSIVE BindAll(_, _, _, _, _, _)
BindAll(tr, ctrl, fs, basePath, reg, i) ==
    IF i > Len(fs) THEN tr
    ELSE LET f == fs[i]
         IN  IF f.name = "BaseController" \/ ~f.isFunc \/ Len(f.route) # 2
             THEN BindAll(tr, ctrl, fs, basePath, reg, i + 1)
             ELSE BindAll(RegisterRoute(tr, ToUpper(f.route[1]),
                                        TrimSuffixSlash(basePath) \o f.route[2],
                                        ctrl, f.name, reg),
                          ctrl, fs, basePath, reg, i + 1)

RegisterControllerOnePass(tr, ctrl, fs, basePath, reg) ==
    BindAll(tr, ctrl, fs, basePath, reg, 1)

\* a bug: a route tag with the wrong number of tokens ends the pass
MalformedReturns(fs, i) == Len(fs) + 1

\* the continue statement after a route tag with the wrong number of tokens:
\* the pass goes on with the next field
MalformedContinues(fs, i) == i + 1

\* one pass of RegisterController over the fields from field i on
RECURSIVE BindPass(_, _, _, _, _, _, _)
BindPass(tr, ctrl, fs, basePath, reg, parameterized, i) ==
    IF i > Len(fs) THEN tr
    ELSE LET f == fs[i]
         IN  IF f.name = "BaseController" \/ ~f.isFunc
             THEN BindPass(tr, ctrl, fs, basePath, reg, parameterized, i + 1)
             ELSE IF f.route = <<>>
             THEN BindPass(tr, ctrl, fs, basePath, reg, parameterized, i + 1)
             ELSE IF Len(f.route) # 2
             THEN BindPass(tr, ctrl, fs, basePath, reg, parameterized,
                           MalformedContinues(fs, i))
             ELSE LET httpMethod == ToUpper(f.route[1])
                      subPath    == f.route[2]
                      fullPath   == TrimSuffixSlash(basePath) \o subPath
                  IN  IF InPass(subPath, parameterized)
                      THEN BindPass(RegisterRoute(tr, httpMethod, fullPath, ctrl, f.name, reg),
                                    ctrl, fs, basePath, reg, parameterized, i + 1)
                      ELSE BindPass(tr, ctrl, fs, basePath, reg, parameterized, i + 1)

\* Server.RegisterController: the parameterized routes, then the others
RegisterController(tr, ctrl, fs, basePath, reg) ==
    BindPass(BindPass(tr, ctrl, fs, basePath, reg, TRUE, 1),
             ctrl, fs, basePath, reg, FALSE, 1)

\* the embedded BaseController field with its baseUrl tag
BaseControllerField(baseUrl) ==
    [BlankField EXCEPT !.name = "BaseController", !.baseUrl = baseUrl]

\* a func field; route is strings.Fields of its route tag
RouteField(name, route) ==
    [BlankField EXCEPT !.name = name, !.isFunc = TRUE, !.route = route]

\* RouteDiscovery.extractBaseURL
RECURSIVE ExtractBaseURLFrom(_, _)
ExtractBaseURLFrom(fs, i) ==
    IF i > Len(fs) THEN <<>>
    ELSE IF fs[i].name = "BaseController" /\ fs[i].baseUrl # <<>>
    THEN fs[i].baseUrl
    ELSE ExtractBaseURLFrom(fs, i + 1)

ExtractBaseURL(fs) == ExtractBaseURLFrom(fs, 1)

(***************************************************************************)
(* Router: the list of routes it records from http tags                    *)
(***************************************************************************)
\* MetaExtractor.GetControllerBaseURL: the tag of the BaseController field
GetControllerBaseURL(fs) ==
    LET m == { i \in 1..Len(fs) : fs[i].name = "BaseController" }
    IN  IF m = {} THEN <<>> ELSE fs[CHOOSE i \in m : \A j \in m : i <= j].baseUrl

\* Router.RegisterController from field i on
RECURSIVE RouterRegisterFrom(_, _, _, _, _)
RouterRegisterFrom(rs, ctrl, fs, basePath, i) ==
    IF i > Len(fs) THEN rs
    ELSE IF fs[i].name # "BaseController" /\ fs[i].http # ""
    THEN RouterRegisterFrom(Append(rs, [Method |-> ToUpper(fs[i].http), Path |-> basePath,
                                        Handler |-> ctrl, HandlerName |-> fs[i].name]),
                            ctrl, fs, basePath, i + 1)
    ELSE RouterRegisterFrom(rs, ctrl, fs, basePath, i + 1)

\* Router.RegisterController
RouterRegisterController(rs, ctrl, fs, basePath) ==
    RouterRegisterFrom(rs, ctrl, fs, basePath, 1)

\* App.registerControllerRoutes
AppRegisterControllerRoutes(rs, ctrl, fs) ==
    IF GetControllerBaseURL(fs) = <<>> THEN rs
    ELSE RouterRegisterController(rs, ctrl, fs, GetControllerBaseURL(fs))

(***************************************************************************)
(* The programs of the startup specification: the services, controllers    *)
(* and modules of the two example applications, and variants of their      *)
(* modules that leave a provider out or list one by value.                 *)
(***************************************************************************)
UsersPath == <<"/", "u", "s", "e", "r", "s">>

ProductsPath == <<"/", "p", "r", "o", "d", "u", "c", "t", "s">>

RootPath == <<"/">>

IdPath == <<"/", ":", "i", "d">>

DB1 == Ptr("FakeDatabase", "db1")

DBV == Val("FakeDatabase", "dbv")

US1 == Ptr("UserService", "us1")

PS1 == Ptr("ProductService", "ps1")

UC1 == Ptr("UserController", "uc1")

PC1 == Ptr("ProductController", "pc1")

\* the struct of UserService, of UserController and of ProductController
UserServiceFields == <<InjectField("Database", "FakeDatabase", TRUE, "FakeDatabase")>>

UserControllerFields ==
    << BaseControllerField(UsersPath),
       InjectField("UserService", "UserService", TRUE, "UserService"),
       RouteField("GetUsers", <<"GET", RootPath>>),
       RouteField("CreateUser", <<"POST", RootPath>>),
       RouteField("GetUser", <<"GET", IdPath>>),
       RouteField("UpdateUser", <<"PUT", IdPath>>),
       RouteField("DeleteUser", <<"DELETE", IdPath>>),
       RouteField("PatchUser", <<"PATCH", IdPath>>),
       RouteField("HeadUsers", <<"HEAD", RootPath>>),
       RouteField("OptionsUsers", <<"OPTIONS", RootPath>>) >>

ProductControllerFields ==
    << BaseControllerField(ProductsPath),
       InjectField("ProductService", "ProductService", TRUE, "ProductService"),
       RouteField("GetProducts", <<"GET", RootPath>>),
       RouteField("GetProduct", <<"GET", IdPath>>),
       RouteField("CreateProduct", <<"POST", RootPath>>) >>

\* the objects as their constructors leave them
NewObjs ==
    [o \in {"db1", "us1", "ps1", "uc1", "pc1"} |->
        CASE o = "us1" -> UserServiceFields
          [] o = "uc1" -> UserControllerFields
          [] o = "pc1" -> ProductControllerFields
          [] OTHER -> <<>>]

\* the module descriptors: name, GetControllers(), GetServices()
Descriptors == {"M1a", "M1b", "M2a", "M2b", "M2c"}

Descriptor(d) ==
    CASE d = "M1a" -> [name |-> "UserModule", controllers |-> <<UC1>>,
                       services |-> <<DB1, US1>>]
      [] d = "M1b" -> [name |-> "UserModule", controllers |-> <<UC1>>,
                       services |-> <<US1>>]
      [] d = "M2a" -> [name |-> "ProductModule", controllers |-> <<PC1>>,
                       services |-> <<PS1>>]
      [] d = "M2b" -> [name |-> "ProductModule", controllers |-> <<PC1>>,
                       services |-> <<DBV, PS1>>]
      [] d = "M2c" -> [name |-> "ProductModule", controllers |-> <<PC1>>,
                       services |-> <<>>]

(***************************************************************************)
(* Module registry                                                         *)
(***************************************************************************)
\* ModuleRegistry.IsModuleRegistered
IsModuleRegistered(mods, name) == name \in DOMAIN mods

\* ModuleRegistry.RegisterModule
RegisterModule(mods, d) == MapStore(mods, Descriptor(d).name, d)

\* a bug: the presence check is left out
AutoRegisterModuleUnchecked(mods, d) == RegisterModule(mods, d)

\* AutoRegisterModule
AutoRegisterModule(mods, d) ==
    IF ~IsModuleRegistered(mods, Descriptor(d).name)
    THEN RegisterModule(mods, d)
    ELSE mods

\* the orders in which a range over the map can enumerate its modules
Orders(mods) ==
    { [i \in 1..Cardinality(DOMAIN mods) |-> mods[q[i]]] :
        q \in { r \in [1..Cardinality(DOMAIN mods) -> DOMAIN mods] :
                  \A i, j \in DOMAIN r : i # j => r[i] # r[j] } }

(***************************************************************************)
(* App                                                                     *)
(***************************************************************************)
RECURSIVE AutoRegisterEach(_, _, _)
AutoRegisterEach(svc, insts, i) ==
    IF i > Len(insts) THEN svc
    ELSE AutoRegisterEach(AutoRegister(svc, insts[i]), insts, i + 1)

\* a bug: only the services of the module enumerated first are registered
RECURSIVE RegisterServicesOfFirst(_, _, _)
RegisterServicesOfFirst(svc, order, i) ==
    IF i > Len(order) \/ i > 1 THEN svc
    ELSE RegisterServicesOfFirst(AutoRegisterEach(svc, Descriptor(order[i]).services, 1),
                                 order, i + 1)

\* the loop over the modules that registers their services in the container
RECURSIVE RegisterServicesOf(_, _, _)
RegisterServicesOf(svc, order, i) ==
    IF i > Len(order) THEN svc
    ELSE RegisterServicesOf(AutoRegisterEach(svc, Descriptor(order[i]).services, 1),
                            order, i + 1)

\* the loop over the controllers of a module that calls App.RegisterController
RECURSIVE RegisterControllersEach(_, _, _, _)
RegisterControllersEach(rs, os, ctrls, i) ==
    IF i > Len(ctrls) THEN rs
    ELSE RegisterControllersEach(
             AppRegisterControllerRoutes(rs, ctrls[i].id, os[ctrls[i].id]),
             os, ctrls, i + 1)

\* the loop over the modules, for the controllers
RECURSIVE RegisterControllersOf(_, _, _, _)
RegisterControllersOf(rs, os, order, i) ==
    IF i > Len(order) THEN rs
    ELSE RegisterControllersOf(
             RegisterControllersEach(rs, os, Descriptor(order[i]).controllers, 1),
             os, order, i + 1)

InjectionsOf(d, kind, insts) ==
    [i \in 1..Len(insts) |-> [module |-> d, kind |-> kind, inst |-> insts[i]]]

\* a bug: the controllers of a module are injected before its services
ModuleInjectionsControllersFirst(d) ==
    InjectionsOf(d, "controller", Descriptor(d).controllers)
        \o InjectionsOf(d, "service", Descriptor(d).services)

\* the Inject calls InjectDependencies makes for one module: its services,
\* then its controllers
ModuleInjections(d) ==
    InjectionsOf(d, "service", Descriptor(d).services)
        \o InjectionsOf(d, "controller", Descriptor(d).controllers)

\* the Inject calls of InjectDependencies over the modules as enumerated
RECURSIVE InjectionOrder(_, _)
InjectionOrder(order, i) ==
    IF i > Len(order) THEN <<>>
    ELSE ModuleInjections(order[i]) \o InjectionOrder(order, i + 1)

\* the target Inject sees for an instance
TargetOf(os, inst) ==
    [isPtr |-> inst.kind = "ptr",
     fields |-> IF inst.kind = "ptr" /\ inst.id \in DOMAIN os THEN os[inst.id] ELSE <<>>]

RECURSIVE InjectEach(_, _, _, _, _)
InjectEach(svc, os, items, i, log) ==
    IF i > Len(items)
    THEN [objs |-> os, log |-> log, panicked |-> FALSE]
    ELSE LET it   == items[i]
             r    == Inject(svc, TargetOf(os, it.inst))
             os2  == IF it.inst.kind = "ptr" /\ it.inst.id \in DOMAIN os
                     THEN [os EXCEPT ![it.inst.id] = r.fields] ELSE os
             log2 == Append(log, [module |-> it.module, kind |-> it.kind,
                                  inst |-> it.inst, result |-> r.result])
         IN  IF r.result = "panic"
             THEN [objs |-> os2, log |-> log2, panicked |-> TRUE]
             ELSE InjectEach(svc, os2, items, i + 1, log2)

\* App.InjectDependencies
InjectDependencies(svc, os, order) ==
    LET r == InjectEach(svc, os, InjectionOrder(order, 1), 1, <<>>)
    IN  [objs   |-> r.objs,
         log    |-> r.log,
         result |-> IF r.panicked THEN "panic"
                    ELSE IF \E i \in 1..Len(r.log) : r.log[i].result = "error"
                    THEN "error" ELSE "nil"]

\* the number of the next RegisterController call on the router
NextReg(tr) == 1 + Cardinality({ tr[i].reg : i \in 1..Len(tr) } \ {0})

\* a bug: a controller without a base URL ends the registration of the module
RECURSIVE RegisterModuleRoutesUntilNoBase(_, _, _, _)
RegisterModuleRoutesUntilNoBase(tr, os, ctrls, i) ==
    IF i > Len(ctrls) THEN tr
    ELSE LET fs      == TargetOf(os, ctrls[i]).fields
             baseURL == ExtractBaseURL(fs)
         IN  IF baseURL = <<>>
             THEN tr
             ELSE RegisterModuleRoutesUntilNoBase(
                      RegisterController(tr, ctrls[i].id, fs, baseURL, NextReg(tr)),
                      os, ctrls, i + 1)

\* RouteDiscovery.registerControllerRoutes over the controllers of a module
RECURSIVE RegisterModuleRoutes(_, _, _, _)
RegisterModuleRoutes(tr, os, ctrls, i) ==
    IF i > Len(ctrls) THEN tr
    ELSE LET fs      == TargetOf(os, ctrls[i]).fields
             baseURL == ExtractBaseURL(fs)
         IN  IF baseURL = <<>>
             THEN RegisterModuleRoutes(tr, os, ctrls, i + 1)
             ELSE RegisterModuleRoutes(
                      RegisterController(tr, ctrls[i].id, fs, baseURL, NextReg(tr)),
                      os, ctrls, i + 1)

\* RouteDiscovery.DiscoverAndRegisterRoutes
RECURSIVE DiscoverAndRegisterRoutes(_, _, _, _)
DiscoverAndRegisterRoutes(tr, os, order, i) ==
    IF i > Len(order) THEN tr
    ELSE DiscoverAndRegisterRoutes(
             RegisterModuleRoutes(tr, os, Descriptor(order[i]).controllers, 1),
             os, order, i + 1)

(***************************************************************************)
(* Startup: modules register themselves, then one of the three entry       *)
(* points runs.  Every range over the registry's map enumerates the        *)
(* modules in an order of its own.                                         *)
(***************************************************************************)
(* Application: the dependency tree                                        *)
(***************************************************************************)
\* the exported methods of *BaseController, which a pointer to a controller
\* that embeds BaseController has too, in the order reflect lists them
BaseControllerMethods ==
    <<"GetControllerDescription", "GetControllerName", "IsController", "JSON",
      "JSONWithStatus", "SetHTTPContext">>

\* the exported methods of the pointer type of a controller: the example
\* controllers declare unexported methods only
MethodsOf(fs) ==
    IF \E i \in 1..Len(fs) : fs[i].name = "BaseController"
    THEN BaseControllerMethods
    ELSE <<>>

\* strings.HasPrefix over the method names
HasPrefix(name, prefix) ==
    CASE prefix = "Get" -> name \in {"GetControllerDescription", "GetControllerName"}
      [] OTHER -> FALSE

\* Application.extractRouteInfo
extractRouteInfo(methodName, fs) ==
    [httpMethod |-> IF HasPrefix(methodName, "Get") THEN "GET"
                    ELSE IF HasPrefix(methodName, "Create") THEN "POST"
                    ELSE IF HasPrefix(methodName, "Update") THEN "PUT"
                    ELSE IF HasPrefix(methodName, "Delete") THEN "DELETE"
                    ELSE "",
     path |-> ExtractBaseURL(fs) \o <<"/">>]

\* Application.addRouteNode and buildRouteTree
addRouteNode(methodName, fs) ==
    [Name |-> methodName, Type |-> "route",
     httpMethod |-> extractRouteInfo(methodName, fs).httpMethod,
     path |-> extractRouteInfo(methodName, fs).path,
     handler |-> methodName, status |-> "registered"]

\* Application.buildControllerTree: the route nodes, from method i on
RECURSIVE buildControllerTree(_, _, _)
buildControllerTree(ms, fs, i) ==
    IF i > Len(ms) THEN <<>>
    ELSE IF HasPrefix(ms[i], "Get") \/ HasPrefix(ms[i], "Create")
    THEN <<addRouteNode(ms[i], fs)>> \o buildControllerTree(ms, fs, i + 1)
    ELSE buildControllerTree(ms, fs, i + 1)

\* Application.addControllerNode with its route nodes
addControllerNode(os, ctrl) ==
    LET fs == TargetOf(os, ctrl).fields
    IN  [Name |-> ctrl.type, Type |-> "controller", baseUrl |-> ExtractBaseURL(fs),
         Children |-> buildControllerTree(MethodsOf(fs), fs, 1)]

\* Application.buildModuleTree: the controller nodes, from controller i on
RECURSIVE buildModuleTree(_, _, _)
buildModuleTree(os, ctrls, i) ==
    IF i > Len(ctrls) THEN <<>>
    ELSE <<addControllerNode(os, ctrls[i])>> \o buildModuleTree(os, ctrls, i + 1)

\* Application.addModuleNode with its controller nodes
addModuleNode(os, d) ==
    [Name |-> Descriptor(d).name, Type |-> "module",
     controllers |-> Len(Descriptor(d).controllers),
     services |-> Len(Descriptor(d).services),
     Children |-> buildModuleTree(os, Descriptor(d).controllers, 1)]

\* Application.buildDependencyTree: a module node per registered module is
\* appended to the children of the root
RECURSIVE buildDependencyTree(_, _, _, _)
buildDependencyTree(t, os, order, i) ==
    IF i > Len(order) THEN t
    ELSE buildDependencyTree(Append(t, addModuleNode(os, order[i])), os, order, i + 1)

(***************************************************************************)
\* a struct that does not embed BaseModule
NotAModule == "NotAModule"

\* the last two registry calls, the latest first
PushCall(calls, c) == IF Len(calls) = 0 THEN <<c>> ELSE <<c, calls[1]>>

InitStartup ==
    /\ services = EmptyMap
    /\ call = NoCall
    /\ users = [o \in DbObjs |-> UserIds]
    /\ modules = EmptyMap
    /\ regCalls = <<>>
    /\ objs = NewObjs
    /\ pc = "boot"
    /\ entry = "none"
    /\ injectLog = <<>>
    /\ injectErr = "none"
    /\ transport = NewServer
    /\ listening = FALSE
    /\ ctx = EmptyMap
    /\ reqs = EmptyMap
    /\ sink = EmptyMap
    /\ gor = EmptyMap
    /\ mutex = NoLock
    /\ initOnce = FreshOnce
    /\ routes = <<>>
    /\ lastReg = NoReg
    /\ tree = <<>>
    /\ life = NoLife

\* registry.RegisterModule(d) while the program sets itself up
DoRegisterModule(d) ==
    /\ pc = "boot"
    /\ modules' = RegisterModule(modules, d)
    /\ regCalls' = PushCall(regCalls, [op |-> "RegisterModule", desc |-> d,
                                       before |-> modules])
    /\ UNCHANGED <<lifeVars, treeVars, routerVars, concVars, serveVars, containerVars, objs, pc, entry, injectLog, injectErr,
                   transport, listening>>

\* AutoRegisterModule(d) while the program sets itself up
DoAutoRegisterModule(d) ==
    /\ pc = "boot"
    /\ modules' = AutoRegisterModule(modules, d)
    /\ regCalls' = PushCall(regCalls, [op |-> "AutoRegisterModule", desc |-> d,
                                       before |-> modules])
    /\ UNCHANGED <<lifeVars, treeVars, routerVars, concVars, serveVars, containerVars, objs, pc, entry, injectLog, injectErr,
                   transport, listening>>

\* StartApplication up to its call of InjectDependencies
StartApplication ==
    /\ pc = "boot"
    /\ entry' = "StartApplication"
    /\ IF DOMAIN modules = {}
       THEN /\ pc' = "returned"
            /\ UNCHANGED <<services, routes>>
       ELSE /\ \E order \in Orders(modules) :
                   /\ services' = RegisterServicesOf(services, order, 1)
                   /\ routes' = RegisterControllersOf(routes, objs, order, 1)
            /\ pc' = "inject"
    /\ UNCHANGED <<lifeVars, treeVars, concVars, serveVars, call, users, lastReg, registryVars, objs,
                   injectLog, injectErr,
                   transport, listening>>

\* App.RegisterModuleAndStart up to its call of InjectDependencies
RegisterModuleAndStart(moduleStruct) ==
    /\ pc = "boot"
    /\ entry' = "RegisterModuleAndStart"
    /\ IF moduleStruct = NotAModule
       THEN /\ pc' = "panicked"
            /\ UNCHANGED <<services, registryVars, routes>>
       ELSE /\ modules' = AutoRegisterModule(modules, moduleStruct)
            /\ regCalls' = PushCall(regCalls, [op |-> "AutoRegisterModule",
                                               desc |-> moduleStruct,
                                               before |-> modules])
            /\ \E order \in Orders(modules') :
                   /\ services' = RegisterServicesOf(services, order, 1)
                   /\ routes' = RegisterControllersOf(routes, objs, order, 1)
            /\ pc' = "inject"
    /\ UNCHANGED <<lifeVars, treeVars, concVars, serveVars, call, users, lastReg, objs, injectLog, injectErr,
                   transport, listening>>

\* Application.Start up to its call of App.Start
ApplicationStart ==
    /\ \/ pc = "boot"
       \/ pc = "stopped" /\ entry = "Application.Start"
    /\ life.starts < MaxStarts
    /\ life' = [life EXCEPT !.starts = @ + 1]
    /\ entry' = "Application.Start"
    /\ \E order \in Orders(modules) :
          tree' = buildDependencyTree(tree, objs, order, 1)
    /\ pc' = "start"
    /\ UNCHANGED <<routerVars, concVars, serveVars, containerVars, registryVars, objs, injectLog, injectErr,
                   transport, listening>>

\* the call of App.InjectDependencies and the branch on its result
DoInjectDependencies ==
    /\ pc = "inject"
    /\ \E order \in Orders(modules) :
          LET r == InjectDependencies(services, objs, order)
          IN  /\ objs' = r.objs
              /\ injectLog' = r.log
              /\ injectErr' = r.result
              /\ pc' = CASE r.result = "nil" -> "start"
                         [] r.result = "error" -> "returned"
                         [] OTHER -> "panicked"
    /\ UNCHANGED <<lifeVars, treeVars, routerVars, concVars, serveVars, containerVars, registryVars, entry, transport, listening>>

\* App.Start: Router.StartServer discovers the routes and starts the server
AppStart ==
    /\ pc = "start"
    /\ \E order \in Orders(modules) :
          transport' = DiscoverAndRegisterRoutes(transport, objs, order, 1)
    /\ listening' = TRUE
    /\ pc' = "serving"
    /\ UNCHANGED <<lifeVars, treeVars, routerVars, concVars, serveVars, containerVars, registryVars, objs, entry, injectLog, injectErr>>

\* http.Server.ListenAndServe returns its error (the address is in use, the
\* listener fails) and the entry point returns to its caller
ListenAndServeReturns ==
    /\ pc = "serving"
    /\ pc' = "stopped"
    /\ listening' = FALSE
    /\ UNCHANGED <<lifeVars, treeVars, routerVars, concVars, serveVars, containerVars,
                   registryVars, objs, entry, injectLog, injectErr, transport>>

\* SIGINT or SIGTERM reaches the process while StartApplication serves:
\* signal.Notify puts it in sigChan
DeliverSignal ==
    /\ pc = "serving"
    /\ entry = "StartApplication"
    /\ life.signal = "none"
    /\ life' = [life EXCEPT !.signal = "pending"]
    /\ UNCHANGED <<treeVars, routerVars, concVars, serveVars, containerVars, registryVars,
                   startupVars>>

\* the goroutine of StartApplication receives from sigChan, logs, and calls
\* cancel() on a context that nothing holds
HandleSignal ==
    /\ life.signal = "pending"
    /\ life' = [life EXCEPT !.signal = "handled", !.cancelled = TRUE]
    /\ UNCHANGED <<treeVars, routerVars, concVars, serveVars, containerVars, registryVars,
                   startupVars>>

Next ==
    \/ ListenAndServeReturns
    \/ DeliverSignal
    \/ HandleSignal
    \/ \E d \in Descriptors : DoRegisterModule(d)
    \/ \E d \in Descriptors : DoAutoRegisterModule(d)
    \/ StartApplication
    \/ \E x \in Descriptors \cup {NotAModule} : RegisterModuleAndStart(x)
    \/ ApplicationStart
    \/ DoInjectDependencies
    \/ AppStart

Spec == InitStartup /\ [][Next]_vars

\* the goroutine that waits on sigChan is scheduled once a signal is there
SpecLive == InitStartup /\ [][Next]_vars /\ WF_vars(HandleSignal)

(***************************************************************************)
(* The entry points that take a struct: a module struct (one that embeds   *)
(* BaseModule, named by its descriptor) or a struct that is not a module.  *)
(* Each yields the registry it leaves and whether the call panicked.       *)
(***************************************************************************)
\* the nil Module interface value
NilModule == "nil"

\* IsModule: the struct has a field named BaseModule
IsModule(moduleStruct) == moduleStruct # NotAModule

\* ExtractModuleFromStruct: nil for a struct that is not a module
ExtractModuleFromStruct(moduleStruct) ==
    IF ~IsModule(moduleStruct) THEN NilModule ELSE moduleStruct

\* AutoRegisterModule on a Module interface value: module.GetModuleName() on
\* the nil interface is a nil dereference
AutoRegisterModuleOn(mods, module) ==
    IF module = NilModule
    THEN [modules |-> mods, panicked |-> TRUE]
    ELSE [modules |-> AutoRegisterModule(mods, module), panicked |-> FALSE]

AutoRegisterModuleFromStruct(mods, moduleStruct) ==
    LET module == ExtractModuleFromStruct(moduleStruct)
    IN  IF module # NilModule
        THEN AutoRegisterModuleOn(mods, module)
        ELSE [modules |-> mods, panicked |-> FALSE]

AutoRegisterOnCreate(mods, moduleStruct) ==
    IF IsModule(moduleStruct)
    THEN AutoRegisterModuleFromStruct(mods, moduleStruct)
    ELSE [modules |-> mods, panicked |-> FALSE]

\* Application.RegisterModule
ApplicationRegisterModule(mods, moduleStruct) ==
    AutoRegisterModuleOn(mods, ExtractModuleFromStruct(moduleStruct))

\* Bootstrap: AutoRegisterOnCreate, then Application.RegisterModule
Bootstrap(mods, moduleStruct) ==
    LET created == AutoRegisterOnCreate(mods, moduleStruct)
    IN  IF created.panicked THEN created
        ELSE ApplicationRegisterModule(created.modules, moduleStruct)

\* a call of an entry point while the program sets itself up
EntryPointCalled(name, moduleStruct, r) ==
    /\ pc = "boot"
    /\ entry' = name
    /\ modules' = r.modules
    /\ regCalls' = PushCall(regCalls, [op |-> name, desc |-> moduleStruct,
                                       before |-> modules])
    /\ pc' = IF r.panicked THEN "panicked" ELSE "boot"
    /\ UNCHANGED <<lifeVars, treeVars, routerVars, concVars, serveVars, containerVars, objs,
                   injectLog, injectErr, transport, listening>>

DoAutoRegisterOnCreate(moduleStruct) ==
    EntryPointCalled("AutoRegisterOnCreate", moduleStruct,
                     AutoRegisterOnCreate(modules, moduleStruct))

DoAutoRegisterModuleFromStruct(moduleStruct) ==
    EntryPointCalled("AutoRegisterModuleFromStruct", moduleStruct,
                     AutoRegisterModuleFromStruct(modules, moduleStruct))

DoApplicationRegisterModule(moduleStruct) ==
    EntryPointCalled("Application.RegisterModule", moduleStruct,
                     ApplicationRegisterModule(modules, moduleStruct))

DoBootstrap(moduleStruct) ==
    EntryPointCalled("Bootstrap", moduleStruct, Bootstrap(modules, moduleStruct))

Structs == Descriptors \cup {NotAModule}

NextEntry ==
    \/ \E x \in Structs : DoAutoRegisterOnCreate(x)
    \/ \E x \in Structs : DoAutoRegisterModuleFromStruct(x)
    \/ \E x \in Structs : DoApplicationRegisterModule(x)
    \/ \E x \in Structs : DoBootstrap(x)
    \/ \E x \in Structs : RegisterModuleAndStart(x)

SpecEntry == InitStartup /\ [][NextEntry]_vars

\* C30: an entry point called with a struct that does not embed BaseModule
\* returns normally and leaves the module registry as it was.
C30_NonModulesIgnored ==
    /\ pc # "panicked"
    /\ (pc = "boot" /\ Len(regCalls) >= 1 /\ regCalls[1].desc = NotAModule)
          => modules = regCalls[1].before

(***************************************************************************)
(* Properties of the startup specification                                 *)
(***************************************************************************)
\* the components of the registered modules
Components ==
    UNION { { Descriptor(modules[n]).services[i] :
                i \in 1..Len(Descriptor(modules[n]).services) }
            \cup { Descriptor(modules[n]).controllers[i] :
                     i \in 1..Len(Descriptor(modules[n]).controllers) } :
            n \in DOMAIN modules }

InjectedAll ==
    \A c \in Components : \E i \in 1..Len(injectLog) : injectLog[i].inst = c

\* C3: on every startup path the listener is started only after injection
\* has run over all registered services and controllers and has reported no
\* failure.
C3_FailFastStartup ==
    listening => (InjectedAll /\ injectErr \notin {"error", "panic"})

LastCall == regCalls[1]

NameOf(c) == Descriptor(c.desc).name

\* C7: a second AutoRegisterModule for a registered name changes nothing, so
\* of two AutoRegisterModule calls for a name the first descriptor is the one
\* stored; RegisterModule stores the new descriptor under the name and leaves
\* every other name alone.
C7_RegistrationIdempotence ==
    /\ (Len(regCalls) >= 1 /\ LastCall.op = "AutoRegisterModule"
          /\ NameOf(LastCall) \in DOMAIN LastCall.before)
         => modules = LastCall.before
    /\ (Len(regCalls) = 2 /\ LastCall.op = "AutoRegisterModule"
          /\ regCalls[2].op = "AutoRegisterModule"
          /\ NameOf(LastCall) = NameOf(regCalls[2])
          /\ NameOf(regCalls[2]) \notin DOMAIN regCalls[2].before)
         => modules[NameOf(LastCall)] = regCalls[2].desc
    /\ (Len(regCalls) >= 1 /\ LastCall.op = "RegisterModule")
         => /\ DOMAIN modules = DOMAIN LastCall.before \cup {NameOf(LastCall)}
            /\ modules[NameOf(LastCall)] = LastCall.desc
            /\ \A n \in DOMAIN LastCall.before \ {NameOf(LastCall)} :
                  modules[n] = LastCall.before[n]

\* two AutoRegisterModule calls with different descriptors of one name
C7_Witness ==
    /\ Len(regCalls) = 2
    /\ regCalls[2].op = "AutoRegisterModule" /\ regCalls[2].desc = "M1a"
    /\ regCalls[2].before = EmptyMap
    /\ LastCall.op = "AutoRegisterModule" /\ LastCall.desc = "M1b"
    /\ modules["UserModule"] = "M1a"

\* C10 as stated: across all modules, no controller is injected before a
\* service.
C10_ServicesBeforeAllControllers ==
    \A i, j \in 1..Len(injectLog) :
        (i < j) => ~(injectLog[i].kind = "controller" /\ injectLog[j].kind = "service")

\* C10: within each module, InjectDependencies injects the services of the
\* module before its controllers.
C10_ServicesFirstPerModule ==
    \A i, j \in 1..Len(injectLog) :
        (i < j /\ injectLog[i].module = injectLog[j].module)
            => ~(injectLog[i].kind = "controller" /\ injectLog[j].kind = "service")

\* injection has run over a module with a service and a controller
C10_Witness ==
    /\ injectErr = "nil"
    /\ \E i, j \in 1..Len(injectLog) :
          /\ i < j
          /\ injectLog[i].module = injectLog[j].module
          /\ injectLog[i].kind = "service"
          /\ injectLog[j].kind = "controller"

\* the controller a controller node of the tree stands for
ControllerOf(node) == CHOOSE c \in {UC1, PC1} : c.type = node.Name

\* the declared routes of a controller: handler, method and full path
DeclaredRoutes(c) ==
    LET fs == objs[c.id]
    IN  { <<fs[i].name, ToUpper(fs[i].route[1]),
            TrimSuffixSlash(ExtractBaseURL(fs)) \o fs[i].route[2]>> :
            i \in { k \in 1..Len(fs) : fs[k].isFunc /\ Len(fs[k].route) = 2 } }

\* what the route children of a controller node carry
RouteNodes(node) ==
    { <<node.Children[i].Name, node.Children[i].httpMethod, node.Children[i].path>> :
        i \in 1..Len(node.Children) }

\* C20: once Application.Start has built the tree, it has module nodes
\* with controller nodes with route nodes, and the route nodes of each
\* controller node are exactly the declared routes of that controller, each
\* with the method and path of the route.
C20_TreeMirrorsRoutes ==
    \A m \in 1..Len(tree) :
        /\ tree[m].Type = "module"
        /\ \A c \in 1..Len(tree[m].Children) :
              /\ tree[m].Children[c].Type = "controller"
              /\ \A r \in 1..Len(tree[m].Children[c].Children) :
                    tree[m].Children[c].Children[r].Type = "route"
              /\ RouteNodes(tree[m].Children[c])
                    = DeclaredRoutes(ControllerOf(tree[m].Children[c]))

\* C21: after any number of Application.Start calls the root has exactly
\* one module node per module in the registry, and no two module nodes of
\* one name.
C21_TreeRebuilt ==
    life.starts > 0 =>
        /\ { tree[i].Name : i \in 1..Len(tree) } = DOMAIN modules
        /\ \A i, j \in 1..Len(tree) : i # j => tree[i].Name # tree[j].Name

\* C22: once StartApplication is serving, a shutdown signal leads to the
\* server being shut down: it stops accepting connections and
\* StartApplication returns.
C22_GracefulShutdown ==
    (entry = "StartApplication" /\ life.signal = "pending")
        ~> (~listening /\ pc = "stopped")

\* the declared services of the registered modules
DeclaredServices ==
    UNION { { Descriptor(modules[n]).services[i] :
                i \in 1..Len(Descriptor(modules[n]).services) } : n \in DOMAIN modules }

\* injection has begun on one of the two entry points that register first
InjectionBegun ==
    /\ entry \in {"StartApplication", "RegisterModuleAndStart"}
    /\ pc = "inject" \/ injectLog # <<>>

\* what happens to component c when the registration loop enumerates the
\* modules as regOrder and InjectDependencies as injOrder
OutcomeOf(regOrder, injOrder, c) ==
    LET log == InjectDependencies(RegisterServicesOf(EmptyMap, regOrder, 1),
                                  NewObjs, injOrder).log
        at  == { i \in 1..Len(log) : log[i].inst = c }
    IN  IF at = {} THEN "not attempted" ELSE log[CHOOSE i \in at : TRUE].result

\* no two declared services of the registered modules share a type name
NoSharedName ==
    \A a, b \in DeclaredServices : a # b => TypeName(a) # TypeName(b)

FailedComponents ==
    { injectLog[i].inst : i \in { k \in 1..Len(injectLog) : injectLog[k].result # "nil" } }

\* C24: InjectDependencies attempts the injection of every service and
\* controller of every registered module, also after a failure, and returns:
\* one error when some component failed, nil exactly when none did.
C24_AggregateError ==
    injectErr # "none" =>
        /\ InjectedAll
        /\ injectErr \in {"nil", "error"}
        /\ injectErr = "nil" <=> FailedComponents = {}

(***************************************************************************)
(* Binding: Server.RegisterController over controllers whose func fields   *)
(* carry every shape of route tag.                                         *)
(***************************************************************************)
MaxRoutes == 3

GC == Ptr("GenericController", "gc")

\* strings.Fields of the route tags of the generic controller's fields
RouteTags ==
    { <<"GET", RootPath>>,
      <<"post", RootPath>>,
      <<"GET", IdPath>>,
      <<"GET", <<"/", ":", "n", "a", "m", "e">>>>,
      <<"GET">>,
      <<"GET", RootPath, <<"x">>>>,
      <<>> }

\* a func field with a route tag, a field of another type with one, or a
\* field with an http tag alone
FieldKinds == [route : RouteTags, isFunc : {TRUE}, http : {""}]
                 \cup [route : {<<"GET", RootPath>>}, isFunc : {FALSE}, http : {""}]
                 \cup [route : {<<>>}, isFunc : BOOLEAN, http : {"get"}]

BasePaths == {<<>>, UsersPath, UsersPath \o <<"/">>}

MkRouteField(i, k) ==
    [BlankField EXCEPT !.name = FieldNames[i], !.isFunc = k.isFunc, !.route = k.route,
                       !.http = k.http]

GenericControllers ==
    { <<BaseControllerField(b)>> \o [i \in 1..Len(lay) |-> MkRouteField(i, lay[i])] :
        b \in BasePaths, lay \in UNION { [1..m -> FieldKinds] : m \in 0..MaxRoutes } }

InitBind ==
    /\ services = EmptyMap
    /\ call = NoCall
    /\ users = [o \in DbObjs |-> UserIds]
    /\ modules = EmptyMap
    /\ regCalls = <<>>
    /\ \E g \in GenericControllers :
          objs = [o \in {"gc", "uc1"} |-> IF o = "gc" THEN g ELSE UserControllerFields]
    /\ pc = "new"
    /\ entry = "none"
    /\ injectLog = <<>>
    /\ injectErr = "none"
    /\ transport = NewServer
    /\ listening = FALSE
    /\ ctx = EmptyMap
    /\ reqs = EmptyMap
    /\ sink = EmptyMap
    /\ gor = EmptyMap
    /\ mutex = NoLock
    /\ initOnce = FreshOnce
    /\ routes = <<>>
    /\ lastReg = NoReg
    /\ tree = <<>>
    /\ life = NoLife

\* the controllers are registered with the App, as StartApplication does
AppRegisterControllers ==
    /\ pc = "new"
    /\ routes' = RegisterControllersEach(routes, objs, <<GC, UC1>>, 1)
    /\ pc' = "boot"
    /\ UNCHANGED <<lifeVars, treeVars, concVars, serveVars, containerVars, registryVars, objs, entry,
                   injectLog, injectErr, transport, listening>>

\* route discovery reaches controller c, which it has not met before
BindController(c, here, next) ==
    /\ pc = here
    /\ transport' = RegisterModuleRoutes(transport, objs, <<c>>, 1)
    /\ pc' = next
    /\ UNCHANGED <<lifeVars, treeVars, routerVars, concVars, serveVars, containerVars, registryVars, objs, entry, injectLog,
                   injectErr, listening>>

\* route discovery reaches a module with both controllers
BindModule(ctrls) ==
    /\ pc = "boot"
    /\ transport' = RegisterModuleRoutes(transport, objs, ctrls, 1)
    /\ pc' = "both"
    /\ UNCHANGED <<lifeVars, treeVars, routerVars, concVars, serveVars, containerVars, registryVars, objs,
                   entry, injectLog, injectErr, listening>>

NextBind ==
    \/ AppRegisterControllers
    \/ BindModule(<<GC, UC1>>)
    \/ BindModule(<<UC1, GC>>)
    \/ BindController(GC, "boot", "generic")
    \/ BindController(UC1, "boot", "users")
    \/ BindController(UC1, "generic", "both")
    \/ BindController(GC, "users", "both")

SpecBind == InitBind /\ [][NextBind]_vars

(***************************************************************************)
(* Properties of the binding specification                                 *)
(***************************************************************************)
\* the field of the controller a route of the transport was bound from
FieldOf(r) ==
    CHOOSE i \in 1..Len(objs[r.ctrl]) : objs[r.ctrl][i].name = r.field

SubPathOf(r) == objs[r.ctrl][FieldOf(r)].route[2]

\* the sub-path has a colon-prefixed segment
HasParamSegment(p) ==
    \E i \in 1..Len(p) : p[i] = ":" /\ (i = 1 \/ p[i - 1] = "/")

Bound == { i \in 1..Len(transport) : transport[i].reg # 0 }

RECURSIVE ReplaceAllParams(_)
ReplaceAllParams(s) ==
    IF Len(s) = 0 THEN <<>>
    ELSE IF s[1] = ":"
    THEN LET rest == Tail(s)
             stop == { i \in 1..Len(rest) : rest[i] = "/" }
             n    == IF stop = {} THEN Len(rest)
                     ELSE (CHOOSE i \in stop : \A j \in stop : i <= j) - 1
         IN  <<"{">> \o SubSeq(rest, 1, n) \o <<"}">>
                \o ReplaceAllParams(SubSeq(rest, n + 1, Len(rest)))
    ELSE <<s[1]>> \o ReplaceAllParams(Tail(s))


\* C9: every colon-prefixed segment of a route's path template is registered
\* as the transport's {name}, so no registered path contains a colon.
C9_GeneralTranslation ==
    \A i \in Bound :
        /\ ~ContainsColon(transport[i].path)
        /\ transport[i].path =
              ReplaceAllParams(TrimSuffixSlash(ExtractBaseURL(objs[transport[i].ctrl]))
                                  \o SubPathOf(transport[i]))

\* the fields of the generic controller that carry an http tag and no route tag
HttpOnlyFields ==
    { i \in 1..Len(objs["gc"]) :
        /\ objs["gc"][i].name # "BaseController"
        /\ objs["gc"][i].http # ""
        /\ objs["gc"][i].route = <<>> }

\* C14: once a controller with a base path has been through registration and
\* route discovery, each of its fields that carries only an http tag has a
\* route bound with the transport, for that method at the base path, which a
\* request for that method and path is dispatched to.
C14_BothConventions ==
    (pc \in {"generic", "both"} /\ ExtractBaseURL(objs["gc"]) # <<>>)
        => \A i \in HttpOnlyFields :
              \E k \in 1..Len(transport) :
                 /\ transport[k].ctrl = "gc"
                 /\ transport[k].field = objs["gc"][i].name
                 /\ transport[k].method = ToUpper(objs["gc"][i].http)
                 /\ transport[k].path \in { ExtractBaseURL(objs["gc"]),
                                            TrimSuffixSlash(ExtractBaseURL(objs["gc"])) }

\* the transport entries one RegisterController call made for field i of the
\* generic controller
EntriesOf(i) ==
    { k \in Bound : transport[k].ctrl = "gc" /\ transport[k].field = objs["gc"][i].name }

\* the func fields of the generic controller whose route tag has two tokens,
\* and those whose route tag has another number of tokens
WellFormed ==
    { i \in 1..Len(objs["gc"]) : objs["gc"][i].isFunc /\ Len(objs["gc"][i].route) = 2 }

Malformed ==
    { i \in 1..Len(objs["gc"]) : objs["gc"][i].isFunc /\ Len(objs["gc"][i].route) \in {1, 3} }

\* C15: after RegisterController is called for a controller, a func field
\* whose route tag does not split into exactly two tokens has no route, and
\* every func field with a well-formed route tag has exactly one route with
\* the transport, whatever malformed fields the controller has.
C15_MalformedSkipped ==
    (pc \in {"generic", "both"} /\ ExtractBaseURL(objs["gc"]) # <<>>)
        => /\ \A i \in Malformed : EntriesOf(i) = {}
           /\ \A i \in WellFormed : Cardinality(EntriesOf(i)) = 1

\* a controller with a malformed field declared before a well-formed one has
\* been registered
C15_Witness ==
    /\ pc \in {"generic", "both"}
    /\ \E i \in Malformed, j \in WellFormed : i < j /\ EntriesOf(j) # {}
    /\ \E i \in Malformed : Len(objs["gc"][i].route) = 3

\* two routes of one RegisterController call registered in the same pass
SamePass(i, j) ==
    /\ transport[i].reg = transport[j].reg
    /\ ContainsColon(SubPathOf(transport[i])) = ContainsColon(SubPathOf(transport[j]))

\* C26: within each of the two passes of one RegisterController call the
\* routes are registered with the transport in the declaration order of the
\* controller's fields.
C26_DeclarationOrder ==
    \A i, j \in Bound :
        (i < j /\ SamePass(i, j)) => FieldOf(transport[i]) < FieldOf(transport[j])

\* the generic controller has two routes of the same pass with the transport
C26_Witness ==
    \E i, j \in Bound :
        /\ i < j /\ SamePass(i, j)
        /\ transport[i].ctrl = "gc" /\ transport[j].ctrl = "gc"
        /\ ContainsColon(SubPathOf(transport[i]))

\* the route was registered for a route-tagged func field of a controller
FromController(r) ==
    /\ r.ctrl \in DOMAIN objs
    /\ \E i \in 1..Len(objs[r.ctrl]) :
          /\ objs[r.ctrl][i].name = r.field
          /\ objs[r.ctrl][i].isFunc
          /\ Len(objs[r.ctrl][i].route) = 2

\* C29: every route in the transport's routing table comes from a
\* route-tagged func field of a registered controller; the framework has
\* registered none on its own.
C29_OnlyControllerRoutes ==
    \A k \in 1..Len(transport) : FromController(transport[k])

\* the func fields of the users controller that carry a route tag
UserRoutes ==
    { i \in 1..Len(objs["uc1"]) : objs["uc1"][i].isFunc /\ Len(objs["uc1"][i].route) = 2 }

\* C16: a controller whose BaseController carries no baseUrl has no route
\* with the transport and none in the router's list, and once the other
\* controller has been reached each of its routes is registered.
C16_NoBasePathSkipped ==
    ExtractBaseURL(objs["gc"]) = <<>>
        => /\ \A k \in 1..Len(transport) : transport[k].ctrl # "gc"
           /\ \A k \in 1..Len(routes) : routes[k].Handler # "gc"
           /\ pc \in {"users", "both"}
                 => \A i \in UserRoutes :
                       \E k \in Bound : /\ transport[k].ctrl = "uc1"
                                        /\ transport[k].field = objs["uc1"][i].name

\* route discovery went through a controller that has route fields and no
\* base path, and through the users controller
C16_Witness ==
    /\ ExtractBaseURL(objs["gc"]) = <<>>
    /\ WellFormed # {}
    /\ HttpOnlyFields # {}
    /\ pc = "both"
    /\ Cardinality({ k \in Bound : transport[k].ctrl = "uc1" }) = Cardinality(UserRoutes)

(***************************************************************************)
(* Serving: the mux router matches each request against the routes in      *)
(* registration order and runs the handler createHandlerWithField built    *)
(* for the route, one goroutine per request.                               *)
(***************************************************************************)
Reqs == {"r1", "r2"}

SC1 == Ptr("StatusController", "sc1")

NoValue == <<>>

StatusPath == <<"/", "s", "t", "a", "t", "u", "s">>

DumpPath == <<"/", "d", "u", "m", "p">>

\* a controller whose handlers use the rest of the dispatcher and of the
\* BaseController helpers: Ping writes nothing and returns a value, Dump
\* passes its data to JSON, Create passes its data to JSONWithStatus
StatusControllerFields ==
    << BaseControllerField(StatusPath),
       RouteField("Ping", <<"GET", RootPath>>),
       RouteField("Dump", <<"GET", DumpPath>>),
       RouteField("Create", <<"POST", RootPath>>) >>

\* a Go value: its dynamic type and what it holds
GoValue(type, val) == [type |-> type, val |-> val]

\* a func with no results, and a nil result
NoResults == GoValue("void", "")

NilResult == GoValue("nil", "")

MapValue == GoValue("map[string]interface{}", "m")

ChanValue == GoValue("chan", "c")

\* what a func stored in a route field can return
ReturnValues ==
    { NilResult, GoValue("[]string", "names"), GoValue("string", "pong"), MapValue,
      GoValue("struct", "s"), GoValue("int", "7"), ChanValue }

\* what a handler can pass to JSON and JSONWithStatus
Payloads == { MapValue, ChanValue }

\* a JSON text: an object with its members <<key, value>>, or another
\* value; NoJson for no text
Json(kind, members, val) == [kind |-> kind, members |-> members, val |-> val]

NoJson == Json("none", {}, "")

JsonObject(members) == Json("object", members, "")

\* the literal bodies the dispatcher and http.Error write
MessageBody(text) == JsonObject({<<"message", text>>})

ErrorBody(text) == JsonObject({<<"error", text>>})

\* encoding/json.Marshal: a channel has no encoding
Marshal(v) ==
    CASE v.type = "chan" -> [err |-> TRUE, json |-> NoJson]
      [] v.type = "map[string]interface{}" ->
            [err |-> FALSE, json |-> JsonObject({<<"status", v.val>>})]
      [] v.type = "struct" -> [err |-> FALSE, json |-> JsonObject({<<"Name", v.val>>})]
      [] v.type = "[]string" -> [err |-> FALSE, json |-> Json("array", {}, v.val)]
      [] v.type = "string" -> [err |-> FALSE, json |-> Json("string", {}, v.val)]
      [] v.type = "int" -> [err |-> FALSE, json |-> Json("number", {}, v.val)]
      [] OTHER -> [err |-> FALSE, json |-> Json("null", {}, "")]

\* a bug: every value is wrapped under data
serializeToJSONWrapped(data) ==
    IF Marshal(data).err THEN Marshal(data)
    ELSE [err |-> FALSE, json |-> JsonObject({<<"data", data.val>>})]

\* Server.serializeToJSON
serializeToJSON(data) ==
    CASE data.type = "[]string" ->
            [err |-> FALSE, json |-> JsonObject({<<"data", data.val>>, <<"count", "len">>})]
      [] data.type = "map[string]interface{}" -> Marshal(data)
      [] data.type = "string" ->
            [err |-> FALSE, json |-> JsonObject({<<"message", data.val>>})]
      [] OTHER -> Marshal(data)

\* a write on a response: a status, a body, an http.Error or the router's 404
Entry(kind, by, id, code, json) ==
    [kind |-> kind, by |-> by, id |-> id, code |-> code, json |-> json]

ServedObjs ==
    [o \in {"uc1", "sc1"} |->
        IF o = "uc1" THEN UserControllerFields ELSE StatusControllerFields]

\* what the func stored in a route field does
HandlerOf(ctrl, field) ==
    CASE ctrl = "uc1" /\ field = "GetUser" -> "lookup"
      [] ctrl = "uc1" /\ field \in {"HeadUsers", "OptionsUsers"} -> "writeHeader"
      [] ctrl = "sc1" /\ field = "Ping" -> "return"
      [] ctrl = "sc1" /\ field = "Create" -> "writeStatus"
      [] OTHER -> "write"

\* the data the handler passes to the helper
PayloadsOf(ctrl, field) == IF ctrl = "sc1" THEN Payloads ELSE {MapValue}

\* the routing table after route discovery over the two controllers
ServedTransport == RegisterModuleRoutes(NewServer, ServedObjs, <<UC1, SC1>>, 1)

\* the segments of a path, split at its slashes
RECURSIVE Split(_)
Split(s) ==
    IF Len(s) = 0 THEN << <<>> >>
    ELSE IF s[1] = "/" THEN << <<>> >> \o Split(Tail(s))
    ELSE LET rest == Split(Tail(s))
         IN  << <<s[1]>> \o rest[1] >> \o Tail(rest)

\* a mux variable segment {name}
IsVar(seg) == Len(seg) >= 2 /\ seg[1] = "{" /\ seg[Len(seg)] = "}"

VarName(seg) == SubSeq(seg, 2, Len(seg) - 1)

\* whether the route template matches the request path
Match(tpl, path) ==
    LET a == Split(tpl)
        b == Split(path)
    IN  /\ Len(a) = Len(b)
        /\ \A i \in 1..Len(a) :
              IF IsVar(a[i]) THEN Len(b[i]) > 0 ELSE a[i] = b[i]

\* mux.Vars of a request matched by the template: pairs <<name, value>>
Vars(tpl, path) ==
    LET a == Split(tpl)
        b == Split(path)
    IN  { <<VarName(a[i]), b[i]>> : i \in { k \in 1..Len(a) : IsVar(a[k]) } }


\* vars[name] with its exists flag folded in: NoValue when absent
Lookup(vs, name) ==
    IF \E p \in vs : p[1] = name
    THEN (CHOOSE p \in vs : p[1] = name)[2]
    ELSE NoValue

\* the first registered route that matches, 0 for none
RouteFor(tr, method, path) ==
    LET m == { i \in 1..Len(tr) : tr[i].method = method /\ Match(tr[i].path, path) }
    IN  IF m = {} THEN 0 ELSE CHOOSE i \in m : \A j \in m : i <= j

IdName == <<"i", "d">>

RequestShapes ==
    { [method |-> "GET", path |-> UsersPath \o <<"/", "7">>],
      [method |-> "GET", path |-> UsersPath \o <<"/", "8">>],
      [method |-> "HEAD", path |-> UsersPath \o <<"/">>],
      [method |-> "GET", path |-> StatusPath \o <<"/">>],
      [method |-> "GET", path |-> StatusPath \o DumpPath],
      [method |-> "POST", path |-> StatusPath \o <<"/">>],
      [method |-> "GET", path |-> UsersPath \o <<"/">>],
      [method |-> "GET", path |-> <<"/", "n", "o", "n", "e">>] }

IdleRequest ==
    [state |-> "idle", method |-> "", path |-> <<>>, route |-> 0, vars |-> {},
     written |-> {}, looked |-> FALSE, seen |-> NoValue, result |-> NoResults,
     failed |-> FALSE]

InitServe ==
    /\ services = EmptyMap
    /\ call = NoCall
    /\ users = [o \in DbObjs |-> UserIds]
    /\ modules = EmptyMap
    /\ regCalls = <<>>
    /\ objs = ServedObjs
    /\ pc = "serving"
    /\ entry = "none"
    /\ injectLog = <<>>
    /\ injectErr = "none"
    /\ transport = ServedTransport
    /\ listening = TRUE
    /\ ctx = [c \in {"uc1", "sc1"} |-> [ResponseWriter |-> "nil", Request |-> "nil"]]
    /\ reqs = [r \in Reqs |-> IdleRequest]
    /\ sink = [r \in Reqs |-> <<>>]
    /\ gor = EmptyMap
    /\ mutex = NoLock
    /\ initOnce = FreshOnce
    /\ routes = <<>>
    /\ lastReg = NoReg
    /\ tree = <<>>
    /\ life = NoLife

serveFrame == <<containerVars, registryVars, startupVars, concVars, routerVars, treeVars, lifeVars>>

CtrlOf(r) == transport[reqs[r].route].ctrl

\* a bug: a status write is not tracked
TrackerWriteHeaderUntracked(rs, t, by) == rs

\* responseTracker.WriteHeader: the tracker of request t notes the write
TrackerWriteHeader(rs, t, by) == [rs EXCEPT ![t].written = @ \cup {by}]

\* responseTracker.Write
TrackerWrite(rs, t, by) == [rs EXCEPT ![t].written = @ \cup {by}]

\* the router takes request r: no route, the route NewServer registered, or
\* a route of a controller, whose handler starts
Arrive(r, shape) ==
    /\ reqs[r].state = "idle"
    /\ LET i  == RouteFor(transport, shape.method, shape.path)
           vs == IF i = 0 THEN {} ELSE Vars(transport[i].path, shape.path)
           rq == [reqs[r] EXCEPT !.method = shape.method, !.path = shape.path,
                                 !.route = i, !.vars = vs]
       IN  IF i = 0
           THEN /\ reqs' = [reqs EXCEPT ![r] = [rq EXCEPT !.state = "done"]]
                /\ sink' = [sink EXCEPT ![r] =
                               Append(@, Entry("notfound", "mux", NoValue, 404, NoJson))]
           ELSE IF transport[i].ctrl = "none"
           THEN /\ reqs' = [reqs EXCEPT ![r] = [rq EXCEPT !.state = "done"]]
                /\ sink' = [sink EXCEPT ![r] =
                               Append(@, Entry("body", "test", Lookup(vs, IdName), 0,
                                               MessageBody("test")))]
           ELSE /\ reqs' = [reqs EXCEPT ![r] = [rq EXCEPT !.state = "setWriter"]]
                /\ UNCHANGED sink
    /\ UNCHANGED <<serveFrame, ctx>>

\* SetHTTPContext: bc.ResponseWriter = w, the tracker of request r
SetResponseWriter(r) ==
    /\ reqs[r].state = "setWriter"
    /\ ctx' = [ctx EXCEPT ![CtrlOf(r)].ResponseWriter = r]
    /\ reqs' = [reqs EXCEPT ![r].state = "setRequest"]
    /\ UNCHANGED <<serveFrame, sink>>

\* SetHTTPContext: bc.Request = r; then the func of the field is called
SetRequest(r) ==
    /\ reqs[r].state = "setRequest"
    /\ ctx' = [ctx EXCEPT ![CtrlOf(r)].Request = r]
    /\ reqs' = [reqs EXCEPT ![r].state =
                   HandlerOf(CtrlOf(r), transport[reqs[r].route].field)]
    /\ UNCHANGED <<serveFrame, sink>>

\* getUserHandler: mux.Vars(c.Request)["id"]
HandlerLookup(r) ==
    /\ reqs[r].state = "lookup"
    /\ reqs' = [reqs EXCEPT ![r].state = "write", ![r].looked = TRUE,
                            ![r].seen = Lookup(reqs[ctx[CtrlOf(r)].Request].vars, IdName)]
    /\ UNCHANGED <<serveFrame, ctx, sink>>

\* BaseController.JSON: a body through c.ResponseWriter, or http.Error
\* through it when the data cannot be marshalled
HandlerJSON(r) ==
    /\ reqs[r].state = "write"
    /\ \E data \in PayloadsOf(CtrlOf(r), transport[reqs[r].route].field) :
          LET t == ctx[CtrlOf(r)].ResponseWriter
              m == Marshal(data)
          IN  /\ reqs' = [TrackerWrite(reqs, t, r) EXCEPT ![r].state = "check",
                                                          ![r].failed = m.err]
              /\ sink' = [sink EXCEPT ![t] =
                             IF m.err
                             THEN Append(@, Entry("error", r, reqs[r].seen, 500,
                                                  ErrorBody("Failed to serialize response")))
                             ELSE Append(@, Entry("body", r, reqs[r].seen, 0, m.json))]
    /\ UNCHANGED <<serveFrame, ctx>>

\* BaseController.JSONWithStatus: the status through c.ResponseWriter, then
\* the body or, when the data cannot be marshalled, http.Error
HandlerJSONWithStatus(r) ==
    /\ reqs[r].state = "writeStatus"
    /\ \E data \in PayloadsOf(CtrlOf(r), transport[reqs[r].route].field) :
          LET t == ctx[CtrlOf(r)].ResponseWriter
              m == Marshal(data)
          IN  /\ reqs' = [TrackerWrite(TrackerWriteHeader(reqs, t, r), t, r)
                             EXCEPT ![r].state = "check", ![r].failed = m.err]
              /\ sink' = [sink EXCEPT ![t] =
                             Append(Append(@, Entry("status", r, NoValue, 201, NoJson)),
                                    IF m.err
                                    THEN Entry("error", r, NoValue, 500,
                                               ErrorBody("Failed to serialize response"))
                                    ELSE Entry("body", r, NoValue, 0, m.json))]
    /\ UNCHANGED <<serveFrame, ctx>>

\* headUsersHandler: c.ResponseWriter.WriteHeader and nothing else
HandlerWriteHeader(r) ==
    /\ reqs[r].state = "writeHeader"
    /\ LET t == ctx[CtrlOf(r)].ResponseWriter
       IN  /\ reqs' = [TrackerWriteHeader(reqs, t, r) EXCEPT ![r].state = "check"]
           /\ sink' = [sink EXCEPT ![t] =
                          Append(@, Entry("status", r, NoValue, 200, NoJson))]
    /\ UNCHANGED <<serveFrame, ctx>>

\* a handler that writes nothing returns a value
HandlerReturn(r) ==
    /\ reqs[r].state = "return"
    /\ \E v \in ReturnValues :
          reqs' = [reqs EXCEPT ![r].state = "check", ![r].result = v]
    /\ UNCHANGED <<serveFrame, ctx, sink>>

\* what the read of tracker.written can yield: the goroutine's own write is
\* seen, no write is not; a write of another goroutine alone races with the read
WrittenReads(r) ==
    IF r \in reqs[r].written THEN {TRUE}
    ELSE IF reqs[r].written = {} THEN {FALSE}
    ELSE BOOLEAN

\* the fallback of createHandlerWithField for the results of the call
Fallback(result) ==
    IF result = NoResults
    THEN Entry("body", "dispatcher", NoValue, 0, MessageBody("Field executed successfully"))
    ELSE IF result = NilResult
    THEN Entry("body", "dispatcher", NoValue, 0, MessageBody("No data returned"))
    ELSE IF serializeToJSON(result).err
    THEN Entry("error", "dispatcher", NoValue, 500, ErrorBody("Internal server error"))
    ELSE Entry("body", "dispatcher", NoValue, 0, serializeToJSON(result).json)

\* after the call: the fallback envelope goes to w unless written is set
Finish(r) ==
    /\ reqs[r].state = "check"
    /\ \E written \in WrittenReads(r) :
          IF ~written
          THEN /\ sink' = [sink EXCEPT ![r] = Append(@, Fallback(reqs[r].result))]
               /\ reqs' = [reqs EXCEPT ![r].state = "done",
                                       ![r].failed = @ \/ Fallback(reqs[r].result).kind = "error"]
          ELSE /\ UNCHANGED sink
               /\ reqs' = [reqs EXCEPT ![r].state = "done"]
    /\ UNCHANGED <<serveFrame, ctx>>

NextServe ==
    \/ \E r \in Reqs, shape \in RequestShapes : Arrive(r, shape)
    \/ \E r \in Reqs : SetResponseWriter(r)
    \/ \E r \in Reqs : SetRequest(r)
    \/ \E r \in Reqs : HandlerLookup(r)
    \/ \E r \in Reqs : HandlerJSON(r)
    \/ \E r \in Reqs : HandlerJSONWithStatus(r)
    \/ \E r \in Reqs : HandlerWriteHeader(r)
    \/ \E r \in Reqs : HandlerReturn(r)
    \/ \E r \in Reqs : Finish(r)

SpecServe == InitServe /\ [][NextServe]_vars

(***************************************************************************)
(* Properties of the serving specification                                 *)
(***************************************************************************)
\* the requests routed to a handler of a controller
Handled == { r \in Reqs : reqs[r].route # 0 /\ transport[reqs[r].route].ctrl # "none" }

\* C5: each handler invocation reads its own request's path parameters and
\* writes to its own request's response sink, also when two requests run
\* on one controller at once.
C5_ContextIsolation ==
    /\ \A r \in Handled :
          reqs[r].looked => reqs[r].seen = Lookup(reqs[r].vars, IdName)
    /\ \A t \in Reqs : \A i \in 1..Len(sink[t]) :
          sink[t][i].by \in Reqs => sink[t][i].by = t

Fallbacks(r) == { i \in 1..Len(sink[r]) : sink[r][i].by = "dispatcher" }

Bodies(r) == { i \in 1..Len(sink[r]) : sink[r][i].kind = "body" }

\* the handler of the route of r writes a response: a body or a status
WritesItself(r) ==
    HandlerOf(CtrlOf(r), transport[reqs[r].route].field) \in {"lookup", "write", "writeHeader", "writeStatus"}

C8_IdRoundTrip ==
    /\ \E i \in 1..Len(transport) :
          /\ transport[i].ctrl = "uc1" /\ transport[i].field = "GetUser"
          /\ transport[i].method = "GET"
          /\ transport[i].path = UsersPath \o <<"/", "{", "i", "d", "}">>
    /\ \A r \in Handled :
          (transport[reqs[r].route].field = "GetUser" /\ reqs[r].looked)
              => reqs[r].seen = Split(reqs[r].path)[3]

\* the requests whose handler returned a value that json.Marshal can encode
Returned ==
    { r \in Handled : reqs[r].result \notin {NoResults, NilResult}
                         /\ reqs[r].result.type # "chan" }

\* the member under which the envelope is to carry the value
EnvelopeKey(v) == IF v.type = "string" THEN "message" ELSE "data"

StatusOf(t) ==
    IF sink[t] = <<>> THEN 0
    ELSE IF sink[t][1].kind = "body" THEN 200
    ELSE sink[t][1].code

\* C19: when the data to send for a request cannot be marshalled, on the
\* fallback path or in JSON or JSONWithStatus, the response of that request
\* carries status 500 with an error envelope, and no other request's
\* response receives the error.
C19_SerializationErrors500 ==
    \A r \in Handled :
        (reqs[r].state = "done" /\ reqs[r].failed)
            => /\ StatusOf(r) = 500
               /\ \E i \in 1..Len(sink[r]) : sink[r][i].kind = "error"
               /\ \A t \in Reqs \ {r} : \A i \in 1..Len(sink[t]) :
                     ~(sink[t][i].kind = "error" /\ sink[t][i].by = r)

(***************************************************************************)
(* Concurrent callers of the two registries: goroutines that call the      *)
(* Container, the ModuleRegistry and GetGlobalRegistry.  An access to a    *)
(* map lasts from the call (after the lock, where there is one) to the     *)
(* return.                                                                 *)
(***************************************************************************)
MaxOps == 2

Goroutines == {"g1", "g2"}

ContainerOps == {"Register", "Get"}

RegistryOps == {"RegisterModule", "GetAllModules", "IsModuleRegistered"}

\* the operations that assign to the map they access
Writes(op) == op \in {"Register", "RegisterModule"}

\* the map an operation accesses
MapOf(op) == IF op \in ContainerOps THEN "services" ELSE "modules"

NoSnap == [live |-> FALSE, content |-> EmptyMap, held |-> FALSE]

\* a bug: the live map is returned
GetAllModulesLive(mods) == [live |-> TRUE, content |-> mods, held |-> TRUE]

\* ModuleRegistry.GetAllModules: a new map with the entries of the registry
GetAllModules(mods) == [live |-> FALSE, content |-> mods, held |-> TRUE]

\* a bug: the initialisation is not guarded by the Once
OnceMayRunUnguarded(o) == o.state # "done"

\* sync.Once.Do runs f for the first caller only
OnceMayRun(o) == o.state = "fresh"

IdleGoroutine ==
    [state |-> "idle", op |-> "none", arg |-> "none", ops |-> 0,
     snap |-> NoSnap, muts |-> 0, got |-> "none", stored |-> "none"]

\* sync.RWMutex: Lock waits for no holder, RLock for no writer
CanLock(mu, op) ==
    IF Writes(op) THEN mu.writer = "none" /\ mu.readers = {}
    ELSE mu.writer = "none"

Acquire(mu, g, op) ==
    IF Writes(op) THEN [mu EXCEPT !.writer = g]
    ELSE [mu EXCEPT !.readers = @ \cup {g}]

Release(mu, g, op) ==
    IF Writes(op) THEN [mu EXCEPT !.writer = "none"]
    ELSE [mu EXCEPT !.readers = @ \ {g}]

InitConc ==
    /\ services = EmptyMap
    /\ call = NoCall
    /\ users = [o \in DbObjs |-> UserIds]
    /\ modules = EmptyMap
    /\ regCalls = <<>>
    /\ objs = NewObjs
    /\ pc = "boot"
    /\ entry = "none"
    /\ injectLog = <<>>
    /\ injectErr = "none"
    /\ transport = NewServer
    /\ listening = FALSE
    /\ ctx = EmptyMap
    /\ reqs = EmptyMap
    /\ sink = EmptyMap
    /\ gor = [g \in Goroutines |-> IdleGoroutine]
    /\ mutex = NoLock
    /\ initOnce = FreshOnce
    /\ routes = <<>>
    /\ lastReg = NoReg
    /\ tree = <<>>
    /\ life = NoLife

concFrame == <<call, users, lastReg, regCalls, startupVars, serveVars, routerVars, treeVars,
              lifeVars>>

CanCall(g) == gor[g].state = "idle" /\ gor[g].ops < MaxOps

\* whether another goroutine is assigning to the map g is in
RacesWithWrite(g) ==
    \E h \in Goroutines \ {g} :
        /\ gor[h].state = "in"
        /\ MapOf(gor[h].op) = MapOf(gor[g].op)
        /\ Writes(gor[h].op)

\* Container.Register / Container.Get is called: no lock, the map access starts
CallContainer(g, op, inst) ==
    /\ CanCall(g)
    /\ gor' = [gor EXCEPT ![g].state = "in", ![g].op = op, ![g].arg = inst,
                          ![g].ops = @ + 1]
    /\ UNCHANGED <<concFrame, services, modules, mutex, initOnce>>

\* the map access of the Container call ends: a read that overlapped a write
\* can also end in the runtime's fatal error
ReturnContainer(g) ==
    /\ gor[g].state = "in"
    /\ gor[g].op \in ContainerOps
    /\ IF gor[g].op = "Register"
       THEN /\ services' = Register(services, ServiceName(gor[g].arg), gor[g].arg)
            /\ gor' = [gor EXCEPT ![g].state = "idle"]
       ELSE /\ UNCHANGED services
            /\ \/ gor' = [gor EXCEPT ![g].state = "idle",
                                     ![g].got = Get(services, "FakeDatabase")]
               \/ /\ RacesWithWrite(g)
                  /\ gor' = [gor EXCEPT ![g].state = "fatal"]
    /\ UNCHANGED <<concFrame, modules, mutex, initOnce>>

\* a ModuleRegistry method takes the mutex (Lock or RLock)
CallRegistry(g, op, d) ==
    /\ CanCall(g)
    /\ CanLock(mutex, op)
    /\ mutex' = Acquire(mutex, g, op)
    /\ gor' = [gor EXCEPT ![g].state = "in", ![g].op = op, ![g].arg = d,
                          ![g].ops = @ + 1]
    /\ UNCHANGED <<concFrame, services, modules, initOnce>>

\* the ModuleRegistry method does its work and releases the mutex
ReturnRegistry(g) ==
    /\ gor[g].state = "in"
    /\ gor[g].op \in RegistryOps
    /\ mutex' = Release(mutex, g, gor[g].op)
    /\ modules' = IF gor[g].op = "RegisterModule"
                  THEN RegisterModule(modules, gor[g].arg) ELSE modules
    /\ gor' = [gor EXCEPT
                 ![g].state = "idle",
                 ![g].snap = IF gor[g].op = "GetAllModules"
                             THEN GetAllModules(modules) ELSE @,
                 ![g].muts = IF gor[g].op = "GetAllModules" THEN 0 ELSE @,
                 ![g].got = IF gor[g].op = "IsModuleRegistered"
                            THEN IsModuleRegistered(modules, Descriptor(gor[g].arg).name)
                            ELSE @]
    /\ UNCHANGED <<concFrame, services, initOnce>>

\* AutoRegisterModule, up to the return of IsModuleRegistered: the name is
\* looked up under the read lock, which is released before the answer is used
CallAutoRegisterModule(g, d) ==
    /\ CanCall(g)
    /\ CanLock(mutex, "IsModuleRegistered")
    /\ gor' = [gor EXCEPT ![g].state = "auto", ![g].op = "AutoRegisterModule",
                          ![g].arg = d, ![g].ops = @ + 1,
                          ![g].got = IsModuleRegistered(modules, Descriptor(d).name)]
    /\ UNCHANGED <<concFrame, services, modules, mutex, initOnce>>

\* AutoRegisterModule, from the answer on: RegisterModule, under the write
\* lock, when the answer was that the name is absent
ReturnAutoRegisterModule(g) ==
    /\ gor[g].state = "auto"
    /\ IF gor[g].got
       THEN /\ gor' = [gor EXCEPT ![g].state = "idle"]
            /\ UNCHANGED modules
       ELSE /\ CanLock(mutex, "RegisterModule")
            /\ modules' = RegisterModule(modules, gor[g].arg)
            /\ gor' = [gor EXCEPT ![g].state = "idle", ![g].stored = gor[g].arg]
    /\ UNCHANGED <<concFrame, services, mutex, initOnce>>

\* what a map holds after the caller stores d under its name or deletes it
Mutated(m, d, store) ==
    IF store THEN MapStore(m, Descriptor(d).name, d)
    ELSE [n \in DOMAIN m \ {Descriptor(d).name} |-> m[n]]

\* the caller adds an entry to, or deletes one from, the map it was returned
MutateSnapshot(g, d, store) ==
    /\ gor[g].state = "idle"
    /\ gor[g].snap.held
    /\ gor[g].muts = 0
    /\ IF gor[g].snap.live
       THEN /\ modules' = Mutated(modules, d, store)
            /\ gor' = [gor EXCEPT ![g].muts = 1]
       ELSE /\ UNCHANGED modules
            /\ gor' = [gor EXCEPT ![g].muts = 1,
                                  ![g].snap.content = Mutated(@, d, store)]
    /\ UNCHANGED <<concFrame, services, mutex, initOnce>>

\* GetGlobalRegistry: initOnce.Do, entered by the one goroutine that runs f
\* or passed once f has run; a caller that meets a running f waits
CallGetGlobalRegistry(g) ==
    /\ CanCall(g)
    /\ \/ /\ OnceMayRun(initOnce)
          /\ initOnce' = [initOnce EXCEPT !.state = "running"]
          /\ gor' = [gor EXCEPT ![g].state = "init", ![g].op = "GetGlobalRegistry",
                                ![g].ops = @ + 1]
       \/ /\ initOnce.state = "done"
          /\ UNCHANGED initOnce
          /\ gor' = [gor EXCEPT ![g].state = "ret", ![g].op = "GetGlobalRegistry",
                                ![g].ops = @ + 1]
    /\ UNCHANGED <<concFrame, services, modules, mutex>>

\* NewModuleRegistry: a registry distinct from the made ones made before
NewModuleRegistry(made) == IF made = 0 THEN "registry1" ELSE "registry2"

\* f: globalRegistry = NewModuleRegistry()
OnceInit(g) ==
    /\ gor[g].state = "init"
    /\ initOnce' = [state |-> "done", globalRegistry |-> NewModuleRegistry(initOnce.made),
                    made |-> initOnce.made + 1]
    /\ gor' = [gor EXCEPT ![g].state = "ret"]
    /\ UNCHANGED <<concFrame, services, modules, mutex>>

\* return globalRegistry
ReturnGetGlobalRegistry(g) ==
    /\ gor[g].state = "ret"
    /\ gor' = [gor EXCEPT ![g].state = "idle", ![g].got = initOnce.globalRegistry]
    /\ UNCHANGED <<concFrame, services, modules, mutex, initOnce>>

ConcDescriptors == {"M1a", "M2a"}

\* two descriptors of one module name
AutoDescriptors == {"M1a", "M1b"}

NextConc ==
    \/ \E g \in Goroutines : CallContainer(g, "Register", DB1)
    \/ \E g \in Goroutines : CallContainer(g, "Get", "none")
    \/ \E g \in Goroutines : ReturnContainer(g)
    \/ \E g \in Goroutines, d \in ConcDescriptors :
          CallRegistry(g, "RegisterModule", d)
    \/ \E g \in Goroutines : CallRegistry(g, "GetAllModules", "none")
    \/ \E g \in Goroutines : CallRegistry(g, "IsModuleRegistered", "M1a")
    \/ \E g \in Goroutines : ReturnRegistry(g)
    \/ \E g \in Goroutines : MutateSnapshot(g, "M2a", TRUE)
    \/ \E g \in Goroutines : MutateSnapshot(g, "M1a", FALSE)
    \/ \E g \in Goroutines : CallGetGlobalRegistry(g)
    \/ \E g \in Goroutines : OnceInit(g)
    \/ \E g \in Goroutines : ReturnGetGlobalRegistry(g)

SpecConc == InitConc /\ [][NextConc]_vars

\* concurrent callers of AutoRegisterModule, next to readers of the registry
NextAuto ==
    \/ \E g \in Goroutines, d \in AutoDescriptors : CallAutoRegisterModule(g, d)
    \/ \E g \in Goroutines : ReturnAutoRegisterModule(g)
    \/ \E g \in Goroutines : CallRegistry(g, "IsModuleRegistered", "M1a")
    \/ \E g \in Goroutines : CallRegistry(g, "GetAllModules", "none")
    \/ \E g \in Goroutines : ReturnRegistry(g)

SpecAuto == InitConc /\ [][NextAuto]_vars

(***************************************************************************)
(* Properties of the concurrent callers                                    *)
(***************************************************************************)
InMap(g, m) == gor[g].state = "in" /\ MapOf(gor[g].op) = m

\* C11: no goroutine reads or writes the Container's map or the
\* ModuleRegistry's map while another goroutine is writing it.
C11_LockProtected ==
    \A m \in {"services", "modules"} : \A g, h \in Goroutines :
        (g # h /\ InMap(g, m) /\ InMap(h, m))
            => (~Writes(gor[g].op) /\ ~Writes(gor[h].op))

\* what the map a caller was returned holds
SnapContent(g) == IF gor[g].snap.live THEN modules ELSE gor[g].snap.content

Returns(g, op) == gor[g].state = "in" /\ gor[g].op = op /\ gor'[g].state = "idle"

\* C12: the map GetAllModules returns holds exactly the registered
\* descriptors; it keeps them whatever is registered afterwards, and the
\* caller's changes to it leave the registry as it is.
C12_Snapshot ==
    [][\A g \in Goroutines :
          /\ Returns(g, "GetAllModules") => SnapContent(g)' = modules
          /\ (gor[g].snap.held /\ gor'[g].muts = gor[g].muts
                /\ ~Returns(g, "GetAllModules"))
               => SnapContent(g)' = SnapContent(g)
          /\ gor'[g].muts > gor[g].muts => modules' = modules]_vars

\* a returned map that the caller changed and that differs from the
\* registry, to which a module was added after the call
C12_Witness ==
    \E g \in Goroutines :
        /\ gor[g].snap.held
        /\ gor[g].muts = 1
        /\ "ProductModule" \in DOMAIN gor[g].snap.content
        /\ "UserModule" \notin DOMAIN gor[g].snap.content
        /\ DOMAIN modules = {"UserModule"}

Got == { gor[g].got : g \in { h \in Goroutines : gor[h].op = "GetGlobalRegistry"
                                                  /\ gor[h].state = "idle" } }

\* C13: one registry is created, and every call of GetGlobalRegistry
\* returns it.
C13_Singleton ==
    /\ initOnce.made <= 1
    /\ Cardinality(Got) <= 1
    /\ "nil" \notin Got

\* both goroutines were returned the registry, one of them having waited
\* for the other's initialisation
C13_Witness ==
    /\ \A g \in Goroutines :
          /\ gor[g].op = "GetGlobalRegistry" /\ gor[g].state = "idle"
          /\ gor[g].ops = 1
          /\ gor[g].got = "registry1"
    /\ initOnce.made = 1

\* the goroutines whose AutoRegisterModule stored a descriptor of that name
AutoStored(name) ==
    { g \in Goroutines : /\ gor[g].stored # "none"
                         /\ Descriptor(gor[g].stored).name = name }

\* C25: of the callers of AutoRegisterModule with descriptors of one module
\* name, at most one stores its descriptor: the descriptor stored first is
\* never replaced by that of another caller.
C25_AtomicAutoRegister ==
    \A name \in { Descriptor(d).name : d \in AutoDescriptors } :
        Cardinality(AutoStored(name)) <= 1

====
